---- MODULE Spec2Model ----
(***************************************************************************)
(* Model of updatetokenxml.py: the record normalizer (fetchTokenInfo), the *)
(* catalog matcher (xmlMatch), the entry synthesizer (createXmlEntry) and  *)
(* the sync loop (updateTokenXML).                                         *)
(*                                                                         *)
(* Python strings are sequences of one-character strings, so that         *)
(* startswith, 'in', split, upper, sorted and join are computed and not    *)
(* assumed.  An lxml element is a record [tag, text, picURL, kids].        *)
(***************************************************************************)
EXTENDS Integers, Sequences, FiniteSets, TLC

VARIABLES token_set, xml_root, cards, set_code, new_token_count,
          double_faced_count, reprint_count, pc, i, j, run,
          start_root, last, first

vars == <<token_set, xml_root, cards, set_code, new_token_count,
          double_faced_count, reprint_count, pc, i, j, run,
          start_root, last, first>>

----------------------------------------------------------------------------
(* Bounds of the model.                                                    *)

MaxTokens == 2

MaxCatalog == 2

MaxTypeWords == 2

MaxSubtypes == 2

----------------------------------------------------------------------------
(* Python values.                                                          *)

\* Python's None: no one-character string, so it equals no string.
None == <<"None">>

\* The exception a missing dict key raises.
KeyError == [exception |-> "KeyError"]

Min(a, b) == IF a <= b THEN a ELSE b

\* Characters in code point order (the part of ASCII the model uses).
CodePoints ==
    <<" ", "/", "0", "1", "2", "3", "4", "5", "6", "7", "8", "9", ":",
      "A", "B", "C", "D", "E", "F", "G", "H", "I", "J", "K", "L", "M",
      "N", "O", "P", "Q", "R", "S", "T", "U", "V", "W", "X", "Y", "Z",
      "a", "b", "c", "d", "e", "f", "g", "h", "i", "j", "k", "l", "m",
      "n", "o", "p", "q", "r", "s", "t", "u", "v", "w", "x", "y", "z">>

ord(c) == CHOOSE k \in 1..Len(CodePoints) : CodePoints[k] = c

LowerCase ==
    <<"a", "b", "c", "d", "e", "f", "g", "h", "i", "j", "k", "l", "m",
      "n", "o", "p", "q", "r", "s", "t", "u", "v", "w", "x", "y", "z">>

UpperCase ==
    <<"A", "B", "C", "D", "E", "F", "G", "H", "I", "J", "K", "L", "M",
      "N", "O", "P", "Q", "R", "S", "T", "U", "V", "W", "X", "Y", "Z">>

\* str.upper(): lower-case letters are mapped, everything else is kept.
upper(s) ==
    [k \in 1..Len(s) |->
        IF \E n \in 1..26 : LowerCase[n] = s[k]
        THEN UpperCase[CHOOSE n \in 1..26 : LowerCase[n] = s[k]]
        ELSE s[k]]

\* str.startswith(prefix)
startswith(s, prefix) ==
    /\ Len(prefix) <= Len(s)
    /\ SubSeq(s, 1, Len(prefix)) = prefix

\* The positions (0-based, as str.find) where sub occurs in s.
Occurrences(s, sub) ==
    {k \in 0..(Len(s) - Len(sub)) : SubSeq(s, k + 1, k + Len(sub)) = sub}

\* sub in s
contains(s, sub) == Occurrences(s, sub) # {}

SetMin(S) == CHOOSE m \in S : \A n \in S : m <= n

SetMax(S) == CHOOSE m \in S : \A n \in S : n <= m

\* str.split(sep): cut at each occurrence of sep, left to right.
RECURSIVE split(_, _)
split(s, sep) ==
    IF Occurrences(s, sep) = {}
    THEN <<s>>
    ELSE LET k == SetMin(Occurrences(s, sep))
         IN  <<SubSeq(s, 1, k)>> \o split(SubSeq(s, k + Len(sep) + 1, Len(s)), sep)

\* sorted() of a list of one-character strings: insertion by code point.
RECURSIVE sorted(_)
sorted(s) ==
    IF s = <<>>
    THEN <<>>
    ELSE LET rest == sorted(Tail(s))
             n == Cardinality({k \in 1..Len(rest) : ord(rest[k]) < ord(Head(s))})
         IN  SubSeq(rest, 1, n) \o <<Head(s)>> \o SubSeq(rest, n + 1, Len(rest))

\* list.insert / lxml insert: an index past the end appends.
insert(s, index, x) ==
    LET k == Min(index, Len(s))
    IN  SubSeq(s, 1, k) \o <<x>> \o SubSeq(s, k + 1, Len(s))

----------------------------------------------------------------------------
(* lxml elements.                                                          *)

Element(tag, text) == [tag |-> tag, text |-> text, picURL |-> None, kids |-> <<>>]

\* What find() returns when nothing matches.
NoElement == [tag |-> "", text |-> None, picURL |-> None, kids |-> <<>>]

iselement(e) == e # NoElement

\* element.find(tag): the first child with that tag.
find(e, tag) ==
    IF \E k \in 1..Len(e.kids) : e.kids[k].tag = tag
    THEN e.kids[SetMin({k \in 1..Len(e.kids) : e.kids[k].tag = tag})]
    ELSE NoElement

\* element.findtext(tag): None when there is no such child, "" when the
\* child has no text.
findtext(e, tag) ==
    IF ~iselement(find(e, tag)) THEN None
    ELSE IF find(e, tag).text = None THEN <<>>
    ELSE find(e, tag).text

\* find('./prop/<tag>')
findprop(e, tag) ==
    IF iselement(find(e, "prop")) THEN find(find(e, "prop"), tag) ELSE NoElement

----------------------------------------------------------------------------
(* String literals of the program and of the modelled data.                *)

Goblin == <<"G", "o", "b", "l", "i", "n">>

Spirit == <<"S", "p", "i", "r", "i", "t">>

Warrior == <<"W", "a", "r", "r", "i", "o", "r">>

Treasure == <<"T", "r", "e", "a", "s", "u", "r", "e">>

Haste == <<"H", "a", "s", "t", "e">>

Token == <<"T", "o", "k", "e", "n">>

Creature == <<"C", "r", "e", "a", "t", "u", "r", "e">>

Artifact == <<"A", "r", "t", "i", "f", "a", "c", "t">>

Enchantment == <<"E", "n", "c", "h", "a", "n", "t", "m", "e", "n", "t">>

Emblem == <<"E", "m", "b", "l", "e", "m">>

Dungeon == <<"D", "u", "n", "g", "e", "o", "n">>

Card == <<"C", "a", "r", "d">>

Space == <<" ">>

Slash == <<"/">>

TokenSuffix == <<" ", "T", "o", "k", "e", "n">>

PleaseEditManually == <<"P", "l", "e", "a", "s", "e", " ", "e", "d", "i", "t", " ", "m", "a", "n", "u", "a", "l", "l", "y">>

transform == <<"t", "r", "a", "n", "s", "f", "o", "r", "m">>

Transform == <<"T", "r", "a", "n", "s", "f", "o", "r", "m">>

\* The separator literal of the split call, as the source file spells it:
\* a space, the three characters U+00E2 U+20AC U+201D, a space.
SubtypeSeparator == <<" ", "U+00E2", "U+20AC", "U+201D", " ">>

\* A space, the em dash U+2014, a space: what upstream type lines contain.
EmDash == <<" ", "U+2014", " ">>

SHORT_TAG_LIST == {Emblem, Dungeon, Card, Token}

----------------------------------------------------------------------------
(* fetchTokenInfo                                                          *)

\* sf_entry[key] for a dict modelled as a record: KeyError when absent.
haskey(d, key) == key \in DOMAIN d

fetchRaises(sf_entry) ==
    \/ ~haskey(sf_entry, "name")
    \/ ~haskey(sf_entry, "oracle_text")
    \/ ~haskey(sf_entry, "type_line")
    \/ ~haskey(sf_entry, "colors")
    \/ ~haskey(sf_entry, "image_uris")
    \/ ~haskey(sf_entry.image_uris, "large")

fetchTokenInfo(sf_entry) ==
    IF fetchRaises(sf_entry)
    THEN KeyError
    ELSE [token_name   |-> sf_entry.name,
          token_text   |-> sf_entry.oracle_text,
          token_type   |-> sf_entry.type_line,
          token_colors |-> sorted(sf_entry.colors),
          token_pt     |-> IF haskey(sf_entry, "power") /\ haskey(sf_entry, "toughness")
                           THEN sf_entry.power \o Slash \o sf_entry.toughness
                           ELSE <<>>,
          token_image  |-> sf_entry.image_uris.large]

----------------------------------------------------------------------------
(* xmlMatch                                                                *)

xml_name(xml_card) == findtext(xml_card, "name")

xml_text(xml_card) ==
    IF iselement(find(xml_card, "text")) THEN findtext(xml_card, "text") ELSE <<>>

xml_colors(xml_card) ==
    IF iselement(findprop(xml_card, "colors"))
    THEN sorted(IF findprop(xml_card, "colors").text = None
                THEN <<>> ELSE findprop(xml_card, "colors").text)
    ELSE <<>>

xml_pt(xml_card) ==
    IF iselement(findprop(xml_card, "pt"))
    THEN (IF findprop(xml_card, "pt").text = None
          THEN <<>> ELSE findprop(xml_card, "pt").text)
    ELSE <<>>

\* A matcher that wants the names equal instead of the entry's name
\* starting with the record's.
perfectMatchExactName(xml_card, token_info) ==
    /\ xml_name(xml_card) = token_info.token_name
    /\ xml_text(xml_card) = token_info.token_text
    /\ findprop(xml_card, "type").text = token_info.token_type
    /\ xml_colors(xml_card) = token_info.token_colors
    /\ xml_pt(xml_card) = token_info.token_pt

\* The condition of the if statement that decides a perfect match.
perfectMatch(xml_card, token_info) ==
    /\ startswith(xml_name(xml_card), token_info.token_name)
    /\ xml_text(xml_card) = token_info.token_text
    /\ findprop(xml_card, "type").text = token_info.token_type
    /\ xml_colors(xml_card) = token_info.token_colors
    /\ xml_pt(xml_card) = token_info.token_pt

\* A set line that carries the set code as given, not uppercased.
newSetLineAsGiven(token_info, code) ==
    [tag |-> "set", text |-> code, picURL |-> token_info.token_image,
     kids |-> <<>>]

\* The new set line: etree.Element('set', picURL = image), text = SET CODE.
newSetLine(token_info, code) ==
    [tag |-> "set", text |-> upper(code), picURL |-> token_info.token_image,
     kids |-> <<>>]

\* An insertion index that ignores whether <text> exists.
insertIndexFixed(xml_card) == 3

\* insert needs a relative index; <text> may or may not exist.
insertIndex(xml_card) == IF iselement(find(xml_card, "text")) THEN 3 ELSE 2

insertSetLine(xml_card, token_info, code) ==
    [xml_card EXCEPT !.kids =
        insert(xml_card.kids, insertIndex(xml_card), newSetLine(token_info, code))]

\* findall('./cards/'): the entries of the catalog, in document order.
findallCards(root) == find(root, "cards").kids

withCards(root, entries) ==
    [root EXCEPT !.kids =
        [k \in 1..Len(root.kids) |->
            IF k = SetMin({n \in 1..Len(root.kids) : root.kids[n].tag = "cards"})
            THEN [root.kids[k] EXCEPT !.kids = entries]
            ELSE root.kids[k]]]

\* The for loop over the entries, from entry k on: acc carries the entries
\* as amended so far, match_found and the global reprint_count.
\* A loop that counts a record once, however many entries it matches.
RECURSIVE xmlMatchLoopOncePerRecord(_, _, _, _)
xmlMatchLoopOncePerRecord(acc, k, token_info, code) ==
    IF k > Len(acc.entries)
    THEN acc
    ELSE IF perfectMatch(acc.entries[k], token_info)
         THEN xmlMatchLoopOncePerRecord(
                [entries |-> [acc.entries EXCEPT
                                 ![k] = insertSetLine(acc.entries[k], token_info, code)],
                 match_found |-> TRUE,
                 reprint_count |-> IF acc.match_found THEN acc.reprint_count
                                   ELSE acc.reprint_count + 1],
                k + 1, token_info, code)
         ELSE xmlMatchLoopOncePerRecord(acc, k + 1, token_info, code)

\* A loop that passes over an entry already holding a set line of this set.
RECURSIVE xmlMatchLoopDedup(_, _, _, _)
xmlMatchLoopDedup(acc, k, token_info, code) ==
    IF k > Len(acc.entries)
    THEN acc
    ELSE IF /\ perfectMatch(acc.entries[k], token_info)
            /\ \A n \in 1..Len(acc.entries[k].kids) :
                  ~(/\ acc.entries[k].kids[n].tag = "set"
                    /\ acc.entries[k].kids[n].text = upper(code))
         THEN xmlMatchLoopDedup(
                [entries |-> [acc.entries EXCEPT
                                 ![k] = insertSetLine(acc.entries[k], token_info, code)],
                 match_found |-> TRUE,
                 reprint_count |-> acc.reprint_count + 1],
                k + 1, token_info, code)
         ELSE xmlMatchLoopDedup(acc, k + 1, token_info, code)

RECURSIVE xmlMatchLoop(_, _, _, _)
xmlMatchLoop(acc, k, token_info, code) ==
    IF k > Len(acc.entries)
    THEN acc
    ELSE IF perfectMatch(acc.entries[k], token_info)
         THEN xmlMatchLoop(
                [entries |-> [acc.entries EXCEPT
                                 ![k] = insertSetLine(acc.entries[k], token_info, code)],
                 match_found |-> TRUE,
                 reprint_count |-> acc.reprint_count + 1],
                k + 1, token_info, code)
         ELSE xmlMatchLoop(acc, k + 1, token_info, code)

\* An xmlMatch that never sets match_found.
xmlMatchForgetsFlag(root, token_info, code, count) ==
    LET r == xmlMatchLoop([entries |-> findallCards(root), match_found |-> FALSE,
                           reprint_count |-> count], 1, token_info, code)
    IN  [xml_root |-> withCards(root, r.entries),
         match_found |-> FALSE,
         reprint_count |-> r.reprint_count]

\* xmlMatch(xml_root, token_info, set_code) with the global reprint_count
\* passed in: the amended root, the return value and the new counter.
xmlMatch(root, token_info, code, count) ==
    LET r == xmlMatchLoop([entries |-> findallCards(root), match_found |-> FALSE,
                           reprint_count |-> count], 1, token_info, code)
    IN  [xml_root |-> withCards(root, r.entries),
         match_found |-> r.match_found,
         reprint_count |-> r.reprint_count]

----------------------------------------------------------------------------
(* createXmlEntry                                                          *)

\* A classification that tests Artifact and Enchantment before Creature.
maintypeArtifactFirst(type_text) ==
    IF contains(type_text, Emblem) THEN Emblem
    ELSE IF contains(type_text, Dungeon) THEN Dungeon
    ELSE IF contains(type_text, Artifact) THEN Artifact
    ELSE IF contains(type_text, Enchantment) THEN Enchantment
    ELSE IF contains(type_text, Creature) THEN Creature
    ELSE PleaseEditManually

maintype(type_text) ==
    IF contains(type_text, Emblem) THEN Emblem
    ELSE IF contains(type_text, Dungeon) THEN Dungeon
    ELSE IF contains(type_text, Creature) THEN Creature
    ELSE IF contains(type_text, Artifact) THEN Artifact
    ELSE IF contains(type_text, Enchantment) THEN Enchantment
    ELSE PleaseEditManually

\* The try block: split(...)[1] raises IndexError when there is no
\* separator, and the name is then left alone.
entryName(token_info) ==
    LET parts == split(token_info.token_type, SubtypeSeparator)
    IN  IF Len(parts) < 2 THEN token_info.token_name
        ELSE IF parts[2] = token_info.token_name
             THEN token_info.token_name \o TokenSuffix
             ELSE token_info.token_name

tablerow(maintype_text) == IF maintype_text = Creature THEN <<"2">> ELSE <<"1">>

propElement(token_info) ==
    [tag |-> "prop", text |-> None, picURL |-> None,
     kids |->
        (IF token_info.token_colors # <<>>
         THEN <<Element("colors", token_info.token_colors)>> ELSE <<>>)
        \o <<Element("type", token_info.token_type)>>
        \o <<Element("maintype", maintype(token_info.token_type))>>
        \o (IF token_info.token_type \notin SHORT_TAG_LIST
            THEN <<Element("cmc", <<"0">>)>> ELSE <<>>)
        \o (IF token_info.token_pt # <<>>
            THEN <<Element("pt", token_info.token_pt)>> ELSE <<>>)]

createXmlEntry(token_info, code) ==
    [tag |-> "card", text |-> None, picURL |-> None,
     kids |->
        <<Element("name", entryName(token_info))>>
        \o (IF token_info.token_text # <<>>
            THEN <<Element("text", token_info.token_text)>> ELSE <<>>)
        \o <<propElement(token_info)>>
        \o <<newSetLine(token_info, code)>>
        \o (IF contains(token_info.token_text, transform)
               \/ contains(token_info.token_text, Transform)
            THEN <<Element("related", <<>>)>> ELSE <<>>)
        \o <<Element("reverse-related", <<>>)>>
        \o <<Element("token", <<"1">>)>>
        \o <<Element("tablerow", tablerow(maintype(token_info.token_type)))>>]

----------------------------------------------------------------------------
(* The data the runs are drawn from.                                       *)

Red == <<"R">>

White == <<"W">>

OneOne == <<"1", "/", "1">>

\* Image references of upstream records and of the catalog's set lines.
ImageA == <<"i", "m", "g", ":", "a">>

ImageB == <<"i", "m", "g", ":", "b">>

TypeGoblin == Token \o Space \o Creature \o EmDash \o Goblin

TypeSpirit == Token \o Space \o Creature \o EmDash \o Spirit

TypeTreasure == Token \o Space \o Artifact \o EmDash \o Treasure

SetCodes == {<<"n", "e", "o">>}

UnitSetCodes == {<<"n", "e", "o">>, <<"M", "h", "2">>}

SetLine(code, image) == [tag |-> "set", text |-> code, picURL |-> image, kids |-> <<>>]

Prop(kids) == [tag |-> "prop", text |-> None, picURL |-> None, kids |-> kids]

CardElement(kids) == [tag |-> "card", text |-> None, picURL |-> None, kids |-> kids]

\* The tail every catalog entry ends with.
EntryTail ==
    <<Element("reverse-related", None), Element("token", <<"1">>),
      Element("tablerow", <<"2">>)>>

CreatureProp(colors, type, pt) ==
    Prop(<<Element("colors", colors), Element("type", type),
           Element("maintype", Creature), Element("cmc", <<"0">>),
           Element("pt", pt)>>)

\* Catalog entries of the sync runs: two that one upstream Goblin matches
\* (the second with a disambiguating suffix and two set lines) and one
\* without a text child.
EntryGoblin ==
    CardElement(<<Element("name", Goblin), Element("text", Haste),
                  CreatureProp(Red, TypeGoblin, OneOne),
                  SetLine(<<"M", "2", "1">>, ImageB)>> \o EntryTail)

EntryGoblinA ==
    CardElement(<<Element("name", Goblin \o <<" ", "A">>), Element("text", Haste),
                  CreatureProp(Red, TypeGoblin, OneOne),
                  SetLine(<<"M", "2", "1">>, ImageB),
                  SetLine(<<"Z", "N", "R">>, ImageB)>> \o EntryTail)

EntrySpirit ==
    CardElement(<<Element("name", Spirit),
                  CreatureProp(White, TypeSpirit, OneOne),
                  SetLine(<<"M", "2", "1">>, ImageB)>> \o EntryTail)

EntryPool == {EntryGoblin, EntryGoblinA, EntrySpirit}

\* The parsed catalog file: a root whose cards child holds the entries.
Catalog(entries) ==
    [tag |-> "cockatrice_carddatabase", text |-> None, picURL |-> None,
     kids |-> <<[tag |-> "info", text |-> None, picURL |-> None, kids |-> <<>>],
                [tag |-> "cards", text |-> None, picURL |-> None, kids |-> entries]>>]

\* Upstream records (dicts: a key is present iff it is in the DOMAIN).
SfGoblin ==
    [layout |-> "token", name |-> Goblin, oracle_text |-> Haste,
     type_line |-> TypeGoblin, colors |-> <<"R">>, power |-> <<"1">>,
     toughness |-> <<"1">>, image_uris |-> [large |-> ImageA]]

SfSpirit ==
    [layout |-> "token", name |-> Spirit, oracle_text |-> <<>>,
     type_line |-> TypeSpirit, colors |-> <<"W">>, power |-> <<"1">>,
     toughness |-> <<"1">>, image_uris |-> [large |-> ImageA]]

SfTreasure ==
    [layout |-> "token", name |-> Treasure, oracle_text |-> Haste,
     type_line |-> TypeTreasure, colors |-> <<>>,
     image_uris |-> [large |-> ImageA]]

\* A face of a double-faced record: the same shape, no layout.
Face(sf) == [k \in DOMAIN sf \ {"layout"} |-> sf[k]]

SfDoubleFaced ==
    [layout |-> "double_faced_token", name |-> Goblin \o <<" ", "/", "/", " ">> \o Treasure,
     card_faces |-> <<Face(SfGoblin), Face(SfTreasure)>>]

\* A record without the large image reference.
SfNoImage ==
    [layout |-> "token", name |-> Goblin, oracle_text |-> Haste,
     type_line |-> TypeGoblin, colors |-> <<"R">>, power |-> <<"1">>,
     toughness |-> <<"1">>, image_uris |-> [small |-> ImageA]]

\* A record without the rules-text field.
SfNoText ==
    [layout |-> "token", name |-> Spirit,
     type_line |-> TypeSpirit, colors |-> <<"W">>, power |-> <<"1">>,
     toughness |-> <<"1">>, image_uris |-> [large |-> ImageA]]

RecordPool == {SfGoblin, SfSpirit, SfTreasure, SfDoubleFaced, SfNoImage, SfNoText}

SeqsUpTo(S, n) == UNION {[1..m -> S] : m \in 0..n}

----------------------------------------------------------------------------
(* updateTokenXML                                                          *)

NoCall == [kind |-> "none"]

\* The state after the parse of the catalog and the initialisation of the
\* counters, before the first iteration of the loop.
Start(tokens, root, code) ==
    /\ token_set = tokens
    /\ xml_root = root
    /\ start_root = root
    /\ set_code = code
    /\ cards = <<>>
    /\ new_token_count = 0
    /\ double_faced_count = 0
    /\ reprint_count = 0
    /\ pc = "loop"
    /\ i = 1
    /\ j = 0
    /\ run = 1
    /\ last = NoCall
    /\ first = NoCall

Init ==
    \E tokens \in SeqsUpTo(RecordPool, MaxTokens),
       entries \in SeqsUpTo(EntryPool, MaxCatalog),
       code \in SetCodes :
        Start(tokens, Catalog(entries), code)

\* One normalized record through the body of the loop: fetchTokenInfo,
\* xmlMatch and, without a match, createXmlEntry.  A KeyError of
\* fetchTokenInfo is caught nowhere and ends the run.
processEntry(sf_entry) ==
    LET token_info == fetchTokenInfo(sf_entry)
        m == xmlMatch(xml_root, token_info, set_code, reprint_count)
    IN  IF token_info = KeyError
        THEN /\ pc' = "error"
             /\ last' = [kind |-> "raised", sf_entry |-> sf_entry]
             /\ UNCHANGED <<xml_root, cards, new_token_count, reprint_count>>
        ELSE /\ pc' = pc
             /\ xml_root' = m.xml_root
             /\ reprint_count' = m.reprint_count
             /\ IF ~m.match_found
                THEN /\ cards' = Append(cards, createXmlEntry(token_info, set_code))
                     /\ new_token_count' = new_token_count + 1
                ELSE UNCHANGED <<cards, new_token_count>>
             /\ last' = [kind |-> "call", sf_entry |-> sf_entry,
                         token_info |-> token_info,
                         root_before |-> xml_root,
                         match_found |-> m.match_found,
                         reprint_before |-> reprint_count,
                         new_before |-> new_token_count,
                         cards_before |-> cards]

\* An iteration of the loop for a record that is not double-faced.
ProcessToken ==
    /\ pc = "loop"
    /\ i <= Len(token_set)
    /\ token_set[i].layout # "double_faced_token"
    /\ processEntry(token_set[i])
    /\ i' = IF pc' = "error" THEN i ELSE i + 1
    /\ UNCHANGED <<token_set, set_code, double_faced_count, j, run, start_root, first>>

\* An iteration for a double-faced record: count it, then loop its faces.
EnterDoubleFaced ==
    /\ pc = "loop"
    /\ i <= Len(token_set)
    /\ token_set[i].layout = "double_faced_token"
    /\ double_faced_count' = double_faced_count + 1
    /\ j' = 1
    /\ pc' = "faces"
    /\ UNCHANGED <<token_set, xml_root, cards, set_code, new_token_count,
                   reprint_count, i, run, start_root, last, first>>

ProcessFace ==
    /\ pc = "faces"
    /\ j <= Len(token_set[i].card_faces)
    /\ processEntry(token_set[i].card_faces[j])
    /\ j' = IF pc' = "error" THEN j ELSE j + 1
    /\ UNCHANGED <<token_set, set_code, double_faced_count, i, run, start_root, first>>

\* The faces are exhausted: on to the next record.
LeaveDoubleFaced ==
    /\ pc = "faces"
    /\ j > Len(token_set[i].card_faces)
    /\ i' = i + 1
    /\ j' = 0
    /\ pc' = "loop"
    /\ UNCHANGED <<token_set, xml_root, cards, set_code, new_token_count,
                   double_faced_count, reprint_count, run, start_root, last, first>>

\* The loop is over: both trees are written and the counts are printed.
WriteOutput ==
    /\ pc = "loop"
    /\ i > Len(token_set)
    /\ pc' = "done"
    /\ UNCHANGED <<token_set, xml_root, cards, set_code, new_token_count,
                   double_faced_count, reprint_count, i, j, run, start_root,
                   last, first>>

\* What the parser reads back from a written tree: an element written
\* with empty text comes back with no text.
RECURSIVE reparse(_)
reparse(e) ==
    [tag |-> e.tag,
     text |-> IF e.text = <<>> THEN None ELSE e.text,
     picURL |-> e.picURL,
     kids |-> [k \in 1..Len(e.kids) |-> reparse(e.kids[k])]]

\* The program run again on the amended catalog file of the first run,
\* the same set code and the same upstream records.
RunAgain ==
    /\ pc = "done"
    /\ run = 1
    /\ run' = 2
    /\ first' = [kind |-> "run", new_token_count |-> new_token_count,
                 reprint_count |-> reprint_count, cards |-> cards,
                 start_root |-> start_root]
    /\ xml_root' = reparse(xml_root)
    /\ start_root' = reparse(xml_root)
    /\ cards' = <<>>
    /\ new_token_count' = 0
    /\ double_faced_count' = 0
    /\ reprint_count' = 0
    /\ pc' = "loop"
    /\ i' = 1
    /\ j' = 0
    /\ last' = NoCall
    /\ UNCHANGED <<token_set, set_code>>

Next ==
    \/ ProcessToken
    \/ EnterDoubleFaced
    \/ ProcessFace
    \/ LeaveDoubleFaced
    \/ WriteOutput
    \/ RunAgain

Spec == Init /\ [][Next]_vars

----------------------------------------------------------------------------
(* Runs of one record against a catalog of one entry, the entry and the    *)
(* record drawn attribute by attribute.                                    *)

OptionalChild(tag) == {<<>>, <<Element(tag, None)>>}

MatchEntries ==
    {CardElement(<<Element("name", name)>> \o text
                 \o <<Prop(colors \o <<Element("type", type),
                                      Element("maintype", Creature)>> \o pt)>>
                 \o <<SetLine(<<"M", "2", "1">>, ImageB)>> \o EntryTail) :
        name \in {Goblin, Goblin \o <<" ", "A">>, <<"G", "o", "b">>},
        text \in OptionalChild("text") \cup {<<Element("text", Haste)>>},
        colors \in OptionalChild("colors")
                   \cup {<<Element("colors", <<"R">>)>>, <<Element("colors", <<"W", "G">>)>>},
        type \in {TypeGoblin, TypeSpirit},
        pt \in OptionalChild("pt") \cup {<<Element("pt", OneOne)>>}}

WithPT(sf, pt) ==
    IF pt THEN [k \in DOMAIN sf \cup {"power", "toughness"} |->
                   IF k \in {"power", "toughness"} THEN <<"1">> ELSE sf[k]]
    ELSE sf

MatchRecords ==
    {WithPT([layout |-> "token", name |-> name, oracle_text |-> text,
             type_line |-> type, colors |-> colors,
             image_uris |-> [large |-> ImageA]], pt) :
        name \in {Goblin, Goblin \o <<" ", "A">>},
        text \in {<<>>, Haste},
        type \in {TypeGoblin, TypeSpirit},
        colors \in {<<>>, <<"R">>, <<"W", "G">>},
        pt \in BOOLEAN}

InitMatch ==
    \E sf \in MatchRecords, entry \in MatchEntries, code \in UnitSetCodes :
        Start(<<sf>>, Catalog(<<entry>>), code)

NextMatch ==
    \/ ProcessToken
    \/ WriteOutput

SpecMatch == InitMatch /\ [][NextMatch]_vars

----------------------------------------------------------------------------
(* Runs of one record against an empty catalog, the type line drawn from   *)
(* words and subtype segments.                                             *)

TypeWords == {Token, Creature, Artifact, Enchantment, Emblem, Dungeon}

Subtypes == {Spirit, Spirit \o Space \o Warrior}

Separators == {SubtypeSeparator, EmDash}

RECURSIVE joinWords(_)
joinWords(ws) ==
    IF Len(ws) = 1 THEN ws[1] ELSE ws[1] \o Space \o joinWords(Tail(ws))

RECURSIVE joinSegments(_)
joinSegments(segs) ==
    IF segs = <<>> THEN <<>>
    ELSE segs[1][1] \o segs[1][2] \o joinSegments(Tail(segs))

TypeLines ==
    {joinWords(ws) \o joinSegments(segs) :
        ws \in SeqsUpTo(TypeWords, MaxTypeWords) \ {<<>>},
        segs \in SeqsUpTo(Separators \X Subtypes, MaxSubtypes)}

CreateRecords ==
    {[layout |-> "token", name |-> Spirit, oracle_text |-> text,
      type_line |-> type, colors |-> <<>>,
      image_uris |-> [large |-> ImageA]] :
        text \in {<<>>, Haste}, type \in TypeLines}

InitCreate ==
    \E sf \in CreateRecords, code \in UnitSetCodes :
        Start(<<sf>>, Catalog(<<>>), code)

NextCreate ==
    \/ ProcessToken
    \/ WriteOutput

SpecCreate == InitCreate /\ [][NextCreate]_vars

----------------------------------------------------------------------------
(* Vocabulary of the statements below, read off the data and not off the   *)
(* program: what an entry holds, what a match is, what a set line is.      *)

Entries(root) ==
    root.kids[CHOOSE k \in 1..Len(root.kids) : root.kids[k].tag = "cards"].kids

ChildrenOf(e, tag) == {k \in 1..Len(e.kids) : e.kids[k].tag = tag}

\* The text of the tag child of e; a missing child and an empty child both
\* read as the empty string.
ValueOf(e, tag) ==
    IF ChildrenOf(e, tag) = {} THEN <<>>
    ELSE LET t == e.kids[SetMin(ChildrenOf(e, tag))].text
         IN  IF t = None THEN <<>> ELSE t

PropOf(e) == e.kids[SetMin(ChildrenOf(e, "prop"))]

IsPrefixOf(p, s) == \E n \in 0..Len(s) : SubSeq(s, 1, n) = p

Count(s, c) == Cardinality({k \in 1..Len(s) : s[k] = c})

SameLetters(a, b) ==
    /\ Len(a) = Len(b)
    /\ \A k \in 1..Len(a) : Count(a, a[k]) = Count(b, a[k])

Ascending(a) == \A k \in 1..(Len(a) - 1) : ord(a[k]) <= ord(a[k + 1])

\* The five conditions under which an entry is a match for a record.
ClaimedMatch(entry, rec) ==
    /\ IsPrefixOf(rec.token_name, ValueOf(entry, "name"))
    /\ ValueOf(entry, "text") = rec.token_text
    /\ ValueOf(PropOf(entry), "type") = rec.token_type
    /\ SameLetters(ValueOf(PropOf(entry), "colors"), rec.token_colors)
    /\ Ascending(rec.token_colors)
    /\ ValueOf(PropOf(entry), "pt") = rec.token_pt

RemoveAt(s, p) == SubSeq(s, 1, p - 1) \o SubSeq(s, p + 1, Len(s))

IsUpperOf(u, s) ==
    /\ Len(u) = Len(s)
    /\ \A k \in 1..Len(s) :
          /\ \A n \in 1..26 : s[k] = LowerCase[n] => u[k] = UpperCase[n]
          /\ (\A n \in 1..26 : s[k] # LowerCase[n]) => u[k] = s[k]

\* e is a provenance line of this run for record rec.
IsProvenanceLine(e, rec) ==
    /\ e.tag = "set"
    /\ IsUpperOf(e.text, set_code)
    /\ e.picURL = rec.token_image
    /\ e.kids = <<>>

\* The entries before and after the last processed record.
Before == Entries(last.root_before)

After == Entries(xml_root)

Matching == {k \in 1..Len(Before) : ClaimedMatch(Before[k], last.token_info)}

Amended == {k \in 1..Len(Before) : After[k] # Before[k]}

SetLines(root) ==
    LET es == Entries(root)
        RECURSIVE sum(_)
        sum(n) == IF n = 0 THEN 0
                  ELSE sum(n - 1) + Cardinality(ChildrenOf(es[n], "set"))
    IN  sum(Len(es))

\* The upstream records and faces, in the order the loop normalizes them.
RECURSIVE Normalized(_, _)
Normalized(tokens, n) ==
    IF n = 0 THEN <<>>
    ELSE Normalized(tokens, n - 1)
         \o (IF tokens[n].layout = "double_faced_token"
             THEN tokens[n].card_faces ELSE <<tokens[n]>>)

\* Those the loop has processed so far.
Processed ==
    Normalized(token_set, i - 1)
    \o (IF j >= 1 THEN SubSeq(token_set[i].card_faces, 1, j - 1) ELSE <<>>)

MatchesAtStart(sf) ==
    {k \in 1..Len(Entries(start_root)) :
        ClaimedMatch(Entries(start_root)[k], fetchTokenInfo(sf))}

RECURSIVE SumMatches(_)
SumMatches(sfs) ==
    IF sfs = <<>> THEN 0
    ELSE Cardinality(MatchesAtStart(Head(sfs))) + SumMatches(Tail(sfs))

Unmatched(sfs) == {n \in 1..Len(sfs) : MatchesAtStart(sfs[n]) = {}}

----------------------------------------------------------------------------
(* The claims.                                                             *)

\* C1: xmlMatch treats a catalog entry as a match for a normalized record
\* (it amends the entry) if and only if all five conditions hold: the
\* entry's name starts with the record's name, the texts are equal, the
\* types are equal, the entry's colors sorted equal the record's colors and
\* the power/toughness are equal, a missing text, colors or pt child of the
\* entry counting as an empty value.
C1_MatchIffFiveConditions ==
    last.kind = "call" =>
        /\ Len(After) = Len(Before)
        /\ Amended = Matching

\* C1 witness: the entry "Goblin A" without text, colors and pt children
\* was matched by the record "Goblin" with empty text, colors and pt.
C1_Witness ==
    /\ last.kind = "call"
    /\ last.token_info.token_name = Goblin
    /\ ValueOf(Before[1], "name") = Goblin \o <<" ", "A">>
    /\ ChildrenOf(Before[1], "text") = {}
    /\ ChildrenOf(PropOf(Before[1]), "colors") = {}
    /\ ChildrenOf(PropOf(Before[1]), "pt") = {}
    /\ Amended = {1}

\* C2: one call of xmlMatch gives every matching entry, not only the first,
\* exactly one new provenance line with the uppercased set code and the
\* record's image, leaves every other entry and the rest of the catalog
\* unchanged, raises reprint_count by the number of matching entries and
\* returns true iff at least one entry matched.
C2_EveryMatchAmendedOnce ==
    last.kind = "call" =>
        /\ Len(After) = Len(Before)
        /\ \A k \in 1..Len(Before) :
              IF k \in Matching
              THEN /\ Len(After[k].kids) = Len(Before[k].kids) + 1
                   /\ \E p \in 1..Len(After[k].kids) :
                         /\ IsProvenanceLine(After[k].kids[p], last.token_info)
                         /\ RemoveAt(After[k].kids, p) = Before[k].kids
                   /\ [After[k] EXCEPT !.kids = Before[k].kids] = Before[k]
              ELSE After[k] = Before[k]
        /\ [n \in 1..Len(xml_root.kids) |->
               IF xml_root.kids[n].tag = "cards" THEN 0 ELSE xml_root.kids[n]]
           = [n \in 1..Len(last.root_before.kids) |->
               IF last.root_before.kids[n].tag = "cards" THEN 0
               ELSE last.root_before.kids[n]]
        /\ reprint_count = last.reprint_before + Cardinality(Matching)
        /\ last.match_found <=> (Matching # {})

\* C2 witness: a call in which two entries matched and both were amended.
C2_Witness ==
    /\ last.kind = "call"
    /\ Cardinality(Matching) = 2
    /\ Amended = Matching
    /\ reprint_count = last.reprint_before + 2
    /\ upper(set_code) # set_code

\* C3 as claimed: a second run with the same records against the amended
\* catalog of the first yields reprint-count equal to the set size and
\* new-count zero.
C3_SecondRunAllReprints ==
    (run = 2 /\ pc = "done") =>
        /\ reprint_count = Len(token_set)
        /\ new_token_count = 0

\* C3 as amended: a second run with the same records against the amended
\* catalog of the first yields the reprint-count and the new-count of the
\* first run (the amended catalog holds no synthesized entry, so what was
\* new is new again, and every match is counted).
C3_SecondRunRepeatsFirst ==
    (run = 2 /\ pc = "done") =>
        /\ reprint_count = first.reprint_count
        /\ new_token_count = first.new_token_count
        /\ Len(cards) = Len(first.cards)
        /\ reprint_count = SumMatches(Normalized(token_set, Len(token_set)))
        /\ new_token_count =
              Cardinality(Unmatched(Normalized(token_set, Len(token_set))))

\* C3 witness: a finished second run that found reprints and new tokens.
C3_Witness ==
    /\ run = 2
    /\ pc = "done"
    /\ reprint_count >= 1
    /\ new_token_count >= 1
    /\ SetLines(xml_root) = SetLines(first.start_root) + 2 * reprint_count

\* C4: a record (or face) without the large image reference is abandoned
\* alone: the run is not ended by it.
C4_MissingImageAbandonsOnlyThatRecord ==
    ~(/\ pc = "error"
      /\ last.kind = "raised"
      /\ haskey(last.sf_entry, "image_uris")
      /\ ~haskey(last.sf_entry.image_uris, "large"))

\* C5: every normalized record has exactly one outcome: matched, and then
\* nothing is synthesized and new-count is unchanged, or unmatched, and then
\* exactly one synthesized entry is appended and new-count grows by one;
\* each face of a double-faced record is such a record of its own, so
\* new-count is the number of processed records and faces without a match.
C5_MatchOrSynthesize ==
    /\ last.kind = "call" =>
          IF Matching # {}
          THEN /\ cards = last.cards_before
               /\ new_token_count = last.new_before
          ELSE /\ Len(cards) = Len(last.cards_before) + 1
               /\ SubSeq(cards, 1, Len(cards) - 1) = last.cards_before
               /\ ValueOf(PropOf(cards[Len(cards)]), "type") = last.token_info.token_type
               /\ IsPrefixOf(last.token_info.token_name, ValueOf(cards[Len(cards)], "name"))
               /\ new_token_count = last.new_before + 1
    /\ new_token_count = Cardinality(Unmatched(Processed))
    /\ Len(cards) = new_token_count

\* C5 witness: both faces of a double-faced record are processed, one
\* matched and one synthesized.
C5_Witness ==
    /\ pc = "faces"
    /\ i = 1
    /\ j = 3
    /\ reprint_count >= 1
    /\ new_token_count = 1
    /\ last.kind = "call"
    /\ Matching = {}

\* C8: a record whose rules-text field is absent is normalized, without
\* failing, to a record whose text is the empty string.
C8_AbsentTextNormalizesToEmpty ==
    (last.kind # "none" /\ ~haskey(last.sf_entry, "oracle_text")) =>
        /\ last.kind = "call"
        /\ last.token_info.token_text = <<>>

\* C10: after every processed record the catalog holds its initial number
\* of entries, its provenance lines are the initial ones plus
\* reprint_count, and the new-entries collection holds new_token_count
\* entries.
C10_LoopInvariant ==
    /\ Len(Entries(xml_root)) = Len(Entries(start_root))
    /\ SetLines(xml_root) = SetLines(start_root) + reprint_count
    /\ Len(cards) = new_token_count

\* C10 witness: two identical unmatched records gave two new entries.
C10_Witness ==
    /\ pc = "done"
    /\ Len(token_set) = 2
    /\ token_set[1] = token_set[2]
    /\ Len(cards) = 2
    /\ cards[1] = cards[2]
    /\ new_token_count = 2

HasWord(s, w) == \E k \in 1..(Len(s) - Len(w) + 1) : SubSeq(s, k, k + Len(w) - 1) = w

ClassificationOrder == <<Emblem, Dungeon, Creature, Artifact, Enchantment>>

Classification(type) ==
    LET hits == {k \in 1..Len(ClassificationOrder) : HasWord(type, ClassificationOrder[k])}
    IN  IF hits = {} THEN PleaseEditManually ELSE ClassificationOrder[SetMin(hits)]

\* The entry synthesized for the last processed record.
Synthesized == cards[Len(cards)]

\* C6: the classification of a synthesized entry is decided by the first
\* of Emblem, Dungeon, Creature, Artifact, Enchantment that occurs in the
\* type line, 'Please edit manually' when none does; a type line with
\* Artifact and Creature (and neither Emblem nor Dungeon) is a Creature; the
\* table row is "2" exactly for a Creature and "1" otherwise.
C6_ClassificationByPriority ==
    (last.kind = "call" /\ Matching = {}) =>
        LET t == last.token_info.token_type
            mt == ValueOf(PropOf(Synthesized), "maintype")
        IN  /\ Cardinality(ChildrenOf(PropOf(Synthesized), "maintype")) = 1
            /\ Cardinality(ChildrenOf(Synthesized, "tablerow")) = 1
            /\ mt = Classification(t)
            /\ (/\ HasWord(t, Artifact)
                /\ HasWord(t, Creature)
                /\ ~HasWord(t, Emblem)
                /\ ~HasWord(t, Dungeon)) => mt = Creature
            /\ ValueOf(Synthesized, "tablerow") = (IF mt = Creature THEN <<"2">> ELSE <<"1">>)

\* C6 witness: a type line with Artifact ahead of Creature was classified
\* Creature, table row "2".
C6_Witness ==
    /\ last.kind = "call"
    /\ Matching = {}
    /\ IsPrefixOf(Artifact \o Space \o Creature, last.token_info.token_type)
    /\ ValueOf(PropOf(Synthesized), "maintype") = Creature
    /\ ValueOf(Synthesized, "tablerow") = <<"2">>

\* The name the claim gives a synthesized entry, for a separator sep.
ClaimedName(name, type, sep) ==
    LET occ == {k \in 1..(Len(type) - Len(sep) + 1) :
                    SubSeq(type, k, k + Len(sep) - 1) = sep}
    IN  IF occ = {} THEN name
        ELSE IF SubSeq(type, SetMax(occ) + Len(sep), Len(type)) = name
             THEN name \o TokenSuffix
             ELSE name

\* C7: when the type line contains the em-dash separator, the subtype
\* candidate is the text after its LAST occurrence and the synthesized name
\* is the record's name plus " Token" exactly when the candidate equals the
\* name; without a separator the name is unchanged.  Stated for the em dash
\* U+2014 and for the separator as the source spells it, each on the type
\* lines that hold no separator of the other spelling.
C7_SubtypeAfterLastSeparator ==
    (last.kind = "call" /\ Matching = {}) =>
        \A sep \in Separators :
            (\A other \in Separators \ {sep} : ~HasWord(last.token_info.token_type, other))
            => ValueOf(Synthesized, "name")
               = ClaimedName(last.token_info.token_name, last.token_info.token_type, sep)

\* The 0-based index the claim names: 3 with a text child, 2 without.
ClaimedIndex(entry) == IF ChildrenOf(entry, "text") # {} THEN 3 ELSE 2

\* C9 as claimed: the new line is the child at index 3 with a text child
\* and 2 without, the children already present keep their order, and the
\* line comes immediately after the text block when there is one.
C9_InsertedAfterTextBlock ==
    last.kind = "call" =>
        \A k \in Amended :
            /\ IsProvenanceLine(After[k].kids[ClaimedIndex(Before[k]) + 1], last.token_info)
            /\ RemoveAt(After[k].kids, ClaimedIndex(Before[k]) + 1) = Before[k].kids
            /\ ChildrenOf(Before[k], "text") # {}
               => After[k].kids[ClaimedIndex(Before[k])].tag = "text"

\* C9 as amended: the new line is the child at index 3 with a text child
\* and 2 without, which is immediately after the prop block (that follows
\* the name and the optional text block) and ahead of every later sibling,
\* the earlier set lines among them; the children already present keep
\* their order.
C9_InsertedAfterProp ==
    last.kind = "call" =>
        \A k \in Amended :
            /\ IsProvenanceLine(After[k].kids[ClaimedIndex(Before[k]) + 1], last.token_info)
            /\ RemoveAt(After[k].kids, ClaimedIndex(Before[k]) + 1) = Before[k].kids
            /\ After[k].kids[ClaimedIndex(Before[k])].tag = "prop"
            /\ ChildrenOf(Before[k], "text") # {}
               => After[k].kids[ClaimedIndex(Before[k]) - 1].tag = "text"
            /\ \A q \in ChildrenOf(Before[k], "set") : q >= ClaimedIndex(Before[k]) + 1

\* C9 witness: a matched entry with a text child got the new line as its
\* fourth child, ahead of its earlier set line.
C9_Witness ==
    /\ last.kind = "call"
    /\ Amended = {1}
    /\ ChildrenOf(Before[1], "text") # {}
    /\ After[1].kids[4].tag = "set"
    /\ After[1].kids[4].picURL = last.token_info.token_image
    /\ After[1].kids[5] = Before[1].kids[4]
====
